---------------------------- MODULE Spec2Model ----------------------------
(***************************************************************************)
(* Model of src/mods/conversations.rs: the conversations.list binding of   *)
(* the Slack Web API client.  The blocking `list` and the future-based     *)
(* `list_async` are run side by side on the same token, the same           *)
(* ListRequest and a transport that behaves the same way for both, each    *)
(* one advancing through the steps of its own combinator chain.            *)
(*                                                                         *)
(* Strings are TLA+ strings, taken apart with Head/Tail/SubSeq and built   *)
(* with \o.  A u32 is held as two 16-bit halves so that the whole range    *)
(* 0 .. 2^32-1 is representable.                                           *)
(***************************************************************************)
EXTENDS Integers, Sequences, FiniteSets, TLC

(***************************************************************************)
(* Option<T>                                                               *)
(***************************************************************************)
None == [some |-> FALSE]
Some(x) == [some |-> TRUE, v |-> x]

(***************************************************************************)
(* u32 and its decimal rendering (`limit.to_string()`).                    *)
(***************************************************************************)
Half == 65536
U32(hi, lo) == [hi |-> hi, lo |-> lo]
U32Max == U32(Half - 1, Half - 1)

DigitChar(d) == SubSeq("0123456789", d + 1, d + 1)

\* Quotient and remainder of a u32 by ten, by long division on the halves.
DivMod10(n) ==
    LET t == (n.hi % 10) * Half + n.lo
    IN  [q |-> U32(n.hi \div 10, t \div 10), r |-> t % 10]

\* Variant: the value narrowed to its low 16 bits before it is rendered.
RECURSIVE u32_to_string_truncated(_)
u32_to_string_truncated(n) ==
    IF n.lo < 10
    THEN DigitChar(n.lo)
    ELSE u32_to_string_truncated(U32(0, n.lo \div 10)) \o DigitChar(n.lo % 10)

RECURSIVE u32_to_string(_)
u32_to_string(n) ==
    IF n.hi = 0 /\ n.lo < 10
    THEN DigitChar(n.lo)
    ELSE u32_to_string(DivMod10(n).q) \o DigitChar(DivMod10(n).r)

\* `if exclude_archived { "1" } else { "0" }`
bool_param(exclude_archived) == IF exclude_archived THEN "1" ELSE "0"

(***************************************************************************)
(* ListRequest and the parameter sequence.                                 *)
(***************************************************************************)
ListRequest(exclude_archived, cursor, limit, types) ==
    [exclude_archived |-> exclude_archived, cursor |-> cursor,
     limit |-> limit, types |-> types]

\* `.map(|limit| limit.to_string())`
map_to_string(limit) ==
    IF limit.some THEN Some(u32_to_string(limit.v)) ELSE None

\* `.map(|exclude_archived| ("exclude_archived", if .. { "1" } else { "0" }))`
map_bool_pair(name, o) ==
    IF o.some THEN Some(<<name, bool_param(o.v)>>) ELSE None

\* `.map(|x| (name, x))`
map_pair(name, o) == IF o.some THEN Some(<<name, o.v>>) ELSE None

\* `.into_iter().filter_map(|x| x).collect::<Vec<_>>()`
RECURSIVE filter_map(_)
filter_map(opts) ==
    IF opts = <<>> THEN <<>>
    ELSE IF Head(opts).some
         THEN <<Head(opts).v>> \o filter_map(Tail(opts))
         ELSE filter_map(Tail(opts))

\* Variant: the limit pair placed before the cursor pair.
list_params_reordered(tok, req) ==
    LET limit == map_to_string(req.limit)
        params == <<
            Some(<<"token", tok>>),
            map_bool_pair("exclude_archived", req.exclude_archived),
            map_pair("limit", limit),
            map_pair("cursor", req.cursor),
            map_pair("types", req.types) >>
    IN  filter_map(params)

\* Lines 30-40 of `list`.
list_params(tok, req) ==
    LET limit == map_to_string(req.limit)
        params == <<
            Some(<<"token", tok>>),
            map_bool_pair("exclude_archived", req.exclude_archived),
            map_pair("cursor", req.cursor),
            map_pair("limit", limit),
            map_pair("types", req.types) >>
    IN  filter_map(params)

\* Lines 61-71 of `list_async` (the same text as in `list`).
list_async_params(tok, req) ==
    LET limit == map_to_string(req.limit)
        params == <<
            Some(<<"token", tok>>),
            map_bool_pair("exclude_archived", req.exclude_archived),
            map_pair("cursor", req.cursor),
            map_pair("limit", limit),
            map_pair("types", req.types) >>
    IN  filter_map(params)

(***************************************************************************)
(* JSON text -> JSON value: the part of serde_json's reader that           *)
(* `serde_json::from_str` (line 46) and reqwest's `Response::json` (line   *)
(* 76) run on the response body.  Grammar covered: objects, arrays,        *)
(* strings with the escapes \" \\ \/ \n \t \r, numbers, true, false, null  *)
(* and white space.  An error carries serde_json's category.               *)
(***************************************************************************)
JNull == [t |-> "null"]
JBool(b) == [t |-> "bool", b |-> b]
JStr(s) == [t |-> "str", s |-> s]
JNum(s) == [t |-> "num", s |-> s]
JArr(items) == [t |-> "arr", items |-> items]
JObj(members) == [t |-> "obj", members |-> members]

POk(v, rest) == [ok |-> TRUE, v |-> v, rest |-> rest]
PErr(category) == [ok |-> FALSE, category |-> category]

IsWs(c) == c \in {" ", "\n", "\t", "\r"}
IsDigit(c) == c \in {"0", "1", "2", "3", "4", "5", "6", "7", "8", "9"}
StartsWith(s, p) == Len(s) >= Len(p) /\ SubSeq(s, 1, Len(p)) = p
Drop(s, n) == SubSeq(s, n + 1, Len(s))

RECURSIVE skip_ws(_)
skip_ws(s) == IF s # "" /\ IsWs(Head(s)) THEN skip_ws(Tail(s)) ELSE s

RECURSIVE CountDigits(_)
CountDigits(s) ==
    IF s # "" /\ IsDigit(Head(s)) THEN 1 + CountDigits(Tail(s)) ELSE 0

\* `true`, `false`, `null`: the whole word or an error.
parse_ident(s, word, v) ==
    IF StartsWith(s, word) THEN POk(v, Drop(s, Len(word)))
    ELSE IF StartsWith(word, s) THEN PErr("eof")
    ELSE PErr("syntax")

\* The characters of a string after its opening quote.
RECURSIVE parse_str(_, _)
parse_str(acc, s) ==
    IF s = "" THEN PErr("eof")
    ELSE LET c == Head(s) IN
         IF c = "\"" THEN POk(acc, Tail(s))
         ELSE IF c = "\\" THEN
             IF Tail(s) = "" THEN PErr("eof")
             ELSE LET e == Head(Tail(s))
                      r == Tail(Tail(s))
                  IN  IF e \in {"\"", "\\", "/"} THEN parse_str(acc \o e, r)
                      ELSE IF e = "n" THEN parse_str(acc \o "\n", r)
                      ELSE IF e = "t" THEN parse_str(acc \o "\t", r)
                      ELSE IF e = "r" THEN parse_str(acc \o "\r", r)
                      ELSE PErr("syntax")
         ELSE IF c \in {"\n", "\t", "\r"} THEN PErr("syntax")
         ELSE parse_str(acc \o c, Tail(s))

\* -? (0 | [1-9][0-9]*) (. [0-9]+)? ([eE] [+-]? [0-9]+)?
parse_number(s) ==
    LET s1 == IF StartsWith(s, "-") THEN Tail(s) ELSE s
        n  == CountDigits(s1)
        s2 == Drop(s1, n)
        hasFrac == StartsWith(s2, ".")
        f  == IF hasFrac THEN CountDigits(Tail(s2)) ELSE 0
        s3 == IF hasFrac THEN Drop(s2, 1 + f) ELSE s2
        hasExp == s3 # "" /\ Head(s3) \in {"e", "E"}
        s4 == IF hasExp /\ Tail(s3) # "" /\ Head(Tail(s3)) \in {"+", "-"}
              THEN Tail(Tail(s3))
              ELSE IF hasExp THEN Tail(s3) ELSE s3
        x  == IF hasExp THEN CountDigits(s4) ELSE 0
        s5 == IF hasExp THEN Drop(s4, x) ELSE s3
    IN  IF n = 0 THEN (IF s1 = "" THEN PErr("eof") ELSE PErr("syntax"))
        ELSE IF n > 1 /\ Head(s1) = "0" THEN PErr("syntax")
        ELSE IF hasFrac /\ f = 0
             THEN (IF Tail(s2) = "" THEN PErr("eof") ELSE PErr("syntax"))
        ELSE IF hasExp /\ x = 0
             THEN (IF s4 = "" THEN PErr("eof") ELSE PErr("syntax"))
        ELSE POk(JNum(SubSeq(s, 1, Len(s) - Len(s5))), s5)

RECURSIVE parse_value(_), parse_elements(_, _), parse_members(_, _)

\* A string value from the scan of its characters.
string_value(r) == IF r.ok THEN POk(JStr(r.v), r.rest) ELSE r

\* After `[`: the empty array or the first element.
open_array(s) ==
    IF s = "" THEN PErr("eof")
    ELSE IF Head(s) = "]" THEN POk(JArr(<<>>), Tail(s))
    ELSE parse_elements(<<>>, s)

\* After `{`: the empty object or the first key.
open_object(s) ==
    IF s = "" THEN PErr("eof")
    ELSE IF Head(s) = "}" THEN POk(JObj(<<>>), Tail(s))
    ELSE parse_members(<<>>, s)

\* A value at the head of s (white space already skipped).
parse_value(s) ==
    IF s = "" THEN PErr("eof")
    ELSE IF Head(s) = "n" THEN parse_ident(s, "null", JNull)
    ELSE IF Head(s) = "t" THEN parse_ident(s, "true", JBool(TRUE))
    ELSE IF Head(s) = "f" THEN parse_ident(s, "false", JBool(FALSE))
    ELSE IF Head(s) = "\"" THEN string_value(parse_str("", Tail(s)))
    ELSE IF Head(s) = "[" THEN open_array(skip_ws(Tail(s)))
    ELSE IF Head(s) = "{" THEN open_object(skip_ws(Tail(s)))
    ELSE IF Head(s) = "-" \/ IsDigit(Head(s)) THEN parse_number(s)
    ELSE PErr("syntax")

\* After an element: `,` and the next element, or `]`.
after_element(items, s) ==
    IF s = "" THEN PErr("eof")
    ELSE IF Head(s) = "," THEN parse_elements(items, skip_ws(Tail(s)))
    ELSE IF Head(s) = "]" THEN POk(JArr(items), Tail(s))
    ELSE PErr("syntax")

element_parsed(acc, r) ==
    IF ~r.ok THEN r ELSE after_element(Append(acc, r.v), skip_ws(r.rest))

\* The elements of an array from the next element on.
parse_elements(acc, s) == element_parsed(acc, parse_value(s))

\* After a member: `,` and the next key, or `}`.
after_member(members, s) ==
    IF s = "" THEN PErr("eof")
    ELSE IF Head(s) = "," THEN parse_members(members, skip_ws(Tail(s)))
    ELSE IF Head(s) = "}" THEN POk(JObj(members), Tail(s))
    ELSE PErr("syntax")

member_parsed(acc, key, r) ==
    IF ~r.ok THEN r
    ELSE after_member(Append(acc, <<key, r.v>>), skip_ws(r.rest))

\* After a key: `:` and the value.
after_key(acc, key, s) ==
    IF s = "" THEN PErr("eof")
    ELSE IF Head(s) # ":" THEN PErr("syntax")
    ELSE member_parsed(acc, key, parse_value(skip_ws(Tail(s))))

key_parsed(acc, k) ==
    IF ~k.ok THEN k ELSE after_key(acc, k.v, skip_ws(k.rest))

\* The members of an object from the next key on.
parse_members(acc, s) ==
    IF s = "" THEN PErr("eof")
    ELSE IF Head(s) # "\"" THEN PErr("syntax")
    ELSE key_parsed(acc, parse_str("", Tail(s)))

\* No characters but white space after the value.
end_of_text(r) ==
    IF ~r.ok THEN r
    ELSE IF skip_ws(r.rest) # "" THEN PErr("syntax")
    ELSE r

\* One value and nothing but white space after it.
parse_json(text) == end_of_text(parse_value(skip_ws(text)))

(***************************************************************************)
(* Result<T, E>                                                            *)
(***************************************************************************)
Ok(v) == [tag |-> "Ok", v |-> v]
Err(e) == [tag |-> "Err", e |-> e]

\* Option::unwrap_or
unwrap_or(o, d) == IF o.some THEN o.v ELSE d

(***************************************************************************)
(* ListResponse and its derived Deserialize (lines 92-98): `channels` and  *)
(* `error` are Options (null or absent gives None), `ok` is a bool with    *)
(* #[serde(default)], unknown keys are skipped, a repeated key or a value  *)
(* of the wrong type is a data error.                                      *)
(***************************************************************************)
ListResponse(channels, error, ok) ==
    [channels |-> channels, error |-> error, ok |-> ok]

serde_error(category) == [category |-> category]

\* ::Conversation is declared outside this file; every JSON object is taken
\* as one and kept as it is.
de_conversation(v) ==
    IF v.t = "obj" THEN Ok(v) ELSE Err(serde_error("data"))

de_channels(v) ==
    IF v.t = "null" THEN Ok(None)
    ELSE IF v.t = "arr"
         THEN IF \A i \in 1..Len(v.items) : de_conversation(v.items[i]).tag = "Ok"
              THEN Ok(Some([i \in 1..Len(v.items) |-> de_conversation(v.items[i]).v]))
              ELSE Err(serde_error("data"))
    ELSE Err(serde_error("data"))

de_error(v) ==
    IF v.t = "null" THEN Ok(None)
    ELSE IF v.t = "str" THEN Ok(Some(v.s))
    ELSE Err(serde_error("data"))

de_ok(v) == IF v.t = "bool" THEN Ok(v.b) ELSE Err(serde_error("data"))

\* The derived visit_map: seen[f] is Some(value) once key f has been read.
RECURSIVE visit_map(_, _)
visit_map(members, seen) ==
    IF members = <<>>
    THEN Ok(ListResponse(unwrap_or(seen.channels, None),
                         unwrap_or(seen.error, None),
                         unwrap_or(seen.ok, FALSE)))
    ELSE LET key == Head(members)[1]
             val == Head(members)[2]
             r == IF key = "channels" THEN de_channels(val)
                  ELSE IF key = "error" THEN de_error(val)
                  ELSE de_ok(val)
         IN  IF key \notin {"channels", "error", "ok"}
             THEN visit_map(Tail(members), seen)
             ELSE IF seen[key].some THEN Err(serde_error("data"))
             ELSE IF r.tag = "Err" THEN r
             ELSE visit_map(Tail(members), [seen EXCEPT ![key] = Some(r.v)])

\* The derived visit_seq: the fields in declaration order.
visit_seq(items) ==
    IF Len(items) = 0 THEN Err(serde_error("data"))
    ELSE IF de_channels(items[1]).tag = "Err" THEN de_channels(items[1])
    ELSE IF Len(items) = 1 THEN Err(serde_error("data"))
    ELSE IF de_error(items[2]).tag = "Err" THEN de_error(items[2])
    ELSE IF Len(items) = 2
         THEN Ok(ListResponse(de_channels(items[1]).v, de_error(items[2]).v, FALSE))
    ELSE IF de_ok(items[3]).tag = "Err" THEN de_ok(items[3])
    ELSE IF Len(items) > 3 THEN Err(serde_error("syntax"))
    ELSE Ok(ListResponse(de_channels(items[1]).v, de_error(items[2]).v,
                         de_ok(items[3]).v))

\* <ListResponse as Deserialize>::deserialize on the value read.
deserialize(r) ==
    IF ~r.ok THEN Err(serde_error(r.category))
    ELSE IF r.v.t = "obj"
         THEN visit_map(r.v.members, [channels |-> None, error |-> None, ok |-> None])
    ELSE IF r.v.t = "arr" THEN visit_seq(r.v.items)
    ELSE Err(serde_error("data"))

\* serde_json::from_str::<ListResponse>
from_str(text) == deserialize(parse_json(text))

(***************************************************************************)
(* ListError (lines 111-140), From<&str> (142-159), Into<Result> (101-109) *)
(***************************************************************************)
NotAuthed == [kind |-> "NotAuthed"]
InvalidAuth == [kind |-> "InvalidAuth"]
AccountInactive == [kind |-> "AccountInactive"]
InvalidArgName == [kind |-> "InvalidArgName"]
InvalidArrayArg == [kind |-> "InvalidArrayArg"]
InvalidCharset == [kind |-> "InvalidCharset"]
InvalidFormData == [kind |-> "InvalidFormData"]
InvalidPostType == [kind |-> "InvalidPostType"]
MissingPostType == [kind |-> "MissingPostType"]
TeamAddedToOrg == [kind |-> "TeamAddedToOrg"]
RequestTimeout == [kind |-> "RequestTimeout"]
MalformedResponse(e) == [kind |-> "MalformedResponse", e |-> e]
Unknown(s) == [kind |-> "Unknown", s |-> s]
Client(e) == [kind |-> "Client", e |-> e]

\* `.map_err(ListError::Client)` and `.map_err(ListError::MalformedResponse)`
map_err_Client(r) == IF r.tag = "Err" THEN Err(Client(r.e)) ELSE r
map_err_MalformedResponse(r) ==
    IF r.tag = "Err" THEN Err(MalformedResponse(r.e)) ELSE r

\* Variant: the request_timeout arm is missing.
ListError_from_missing_arm(s) ==
    CASE s = "not_authed" -> NotAuthed
      [] s = "invalid_auth" -> InvalidAuth
      [] s = "account_inactive" -> AccountInactive
      [] s = "invalid_arg_name" -> InvalidArgName
      [] s = "invalid_array_arg" -> InvalidArrayArg
      [] s = "invalid_charset" -> InvalidCharset
      [] s = "invalid_form_data" -> InvalidFormData
      [] s = "invalid_post_type" -> InvalidPostType
      [] s = "missing_post_type" -> MissingPostType
      [] s = "team_added_to_org" -> TeamAddedToOrg
      [] OTHER -> Unknown(s)

ListError_from(s) ==
    CASE s = "not_authed" -> NotAuthed
      [] s = "invalid_auth" -> InvalidAuth
      [] s = "account_inactive" -> AccountInactive
      [] s = "invalid_arg_name" -> InvalidArgName
      [] s = "invalid_array_arg" -> InvalidArrayArg
      [] s = "invalid_charset" -> InvalidCharset
      [] s = "invalid_form_data" -> InvalidFormData
      [] s = "invalid_post_type" -> InvalidPostType
      [] s = "missing_post_type" -> MissingPostType
      [] s = "team_added_to_org" -> TeamAddedToOrg
      [] s = "request_timeout" -> RequestTimeout
      [] OTHER -> Unknown(s)

\* Variant: the envelope is returned without looking at `ok`.
ListResponse_into_unchecked(self) == Ok(self)

\* Variant: a missing `error` is given a code that is not the empty string.
ListResponse_into_default_code(self) ==
    IF self.ok
    THEN Ok(self)
    ELSE Err(ListError_from(unwrap_or(self.error, "unknown")))

ListResponse_into(self) ==
    IF self.ok
    THEN Ok(self)
    ELSE Err(ListError_from(unwrap_or(self.error, "")))

(***************************************************************************)
(* Inputs: tokens, requests and what the transport does with a request.    *)
(***************************************************************************)
MaxSmallLimit == 2
MaxChannels == 2

Tokens == {"xoxb-1", "xoxp-2"}

Limits ==
    {U32(0, n) : n \in 0..MaxSmallLimit}
        \cup {U32(0, 10), U32(0, Half - 1), U32(1, 0), U32(15258, 51712), U32Max}

Requests ==
    {ListRequest(ea, cu, li, ty) :
        ea \in {None, Some(TRUE), Some(FALSE)},
        cu \in {None, Some("dGVhbTpDMDYx")},
        li \in {None} \cup {Some(l) : l \in Limits},
        ty \in {None, Some("public_channel,im")}}

KnownCodes ==
    {"not_authed", "invalid_auth", "account_inactive", "invalid_arg_name",
     "invalid_array_arg", "invalid_charset", "invalid_form_data",
     "invalid_post_type", "missing_post_type", "team_added_to_org",
     "request_timeout"}

OtherCodes == {"", "some_future_code", "Invalid_Auth", "invalid_auth ", "ratelimited"}

ErrorBody(code) == "{\"ok\":false,\"error\":\"" \o code \o "\"}"

RECURSIVE Conversations(_)
Conversations(n) ==
    IF n = 0 THEN ""
    ELSE IF n = 1 THEN "{\"id\":\"C1\"}"
    ELSE Conversations(n - 1) \o ",{}"

ChannelsBody(n) == "{\"ok\":true,\"channels\":[" \o Conversations(n) \o "]}"

Bodies ==
    {ErrorBody(c) : c \in KnownCodes \cup OtherCodes}
        \cup {ChannelsBody(n) : n \in 0..MaxChannels}
        \cup {"{\"ok\":true}", "{\"ok\":false}", "{}",
              "{\"error\":\"not_authed\"}",
              "{\"ok\":false,\"error\":null}",
              "{\"ok\":true,\"error\":\"invalid_auth\"}",
              "{\"ok\":false,\"channels\":[],\"warning\":\"w\"}",
              " { \"channels\" : null , \"ok\" : true } ",
              "[null,null,true]", "[null,\"invalid_auth\"]",
              "", "not json", "<html>502</html>", "{\"ok\":tru",
              "{\"ok\":true}}", "{\"ok\":\"yes\"}", "{\"ok\":null}",
              "{\"ok\":false,\"error\":7}", "{\"ok\":true,\"ok\":true}",
              "{\"ok\":true,\"channels\":[1]}", "null", "42"}

TransportErrors ==
    {[kind |-> "transport", msg |-> "connection refused"],
     [kind |-> "transport", msg |-> "timed out"]}

\* What the transport yields for a request: its own error or a body.
Behaviours == {Err(e) : e \in TransportErrors} \cup {Ok(b) : b \in Bodies}

\* ::get_slack_url_for_method, declared outside this file.
get_slack_url_for_method(method) == "https://slack.com/api/" \o method

(***************************************************************************)
(* State.  One call of `list` (sync) and one of `list_async` (async) on    *)
(* the same token and request, against a transport of the same behaviour.  *)
(***************************************************************************)
VARIABLES token, request, transport, sync, async

vars == <<token, request, transport, sync, async>>

Idle ==
    [pc |-> "idle", params |-> <<>>, url |-> "", sent |-> <<>>, text |-> None,
     parsed |-> None, parses |-> 0, intos |-> 0, result |-> None]

Init ==
    /\ token = ""
    /\ request = ListRequest(None, None, None, None)
    /\ transport = Err([kind |-> "transport", msg |-> "not connected"])
    /\ sync = Idle
    /\ async = Idle

\* A caller invokes list and list_async with (client, token, request).
Call ==
    /\ sync.pc = "idle"
    /\ async.pc = "idle"
    /\ \E tok \in Tokens, req \in Requests, beh \in Behaviours :
        /\ token' = tok
        /\ request' = req
        /\ transport' = beh
    /\ sync' = [Idle EXCEPT !.pc = "params"]
    /\ async' = [Idle EXCEPT !.pc = "params"]

(***************************************************************************)
(* list (lines 22-49)                                                      *)
(***************************************************************************)
\* Lines 30-41: the parameters and the url.
list_build ==
    /\ sync.pc = "params"
    /\ sync' = [sync EXCEPT !.pc = "send",
                            !.params = list_params(token, request),
                            !.url = get_slack_url_for_method("conversations.list")]
    /\ UNCHANGED <<token, request, transport, async>>

\* Variant: a transport error does not end the chain, the empty text is
\* handed to the parse step.
list_send_through ==
    /\ sync.pc = "send"
    /\ LET r == map_err_Client(transport) IN
       sync' = [sync EXCEPT
                  !.sent = Append(@, [url |-> sync.url, params |-> sync.params]),
                  !.pc = "parse",
                  !.text = IF r.tag = "Err" THEN Some("") ELSE Some(r.v)]
    /\ UNCHANGED <<token, request, transport, async>>

\* Variant: a failed send is tried once more.
list_send_retry ==
    /\ sync.pc = "send"
    /\ LET r == map_err_Client(transport)
           again == r.tag = "Err" /\ sync.sent = <<>>
       IN  sync' = [sync EXCEPT
                      !.sent = Append(@, [url |-> sync.url, params |-> sync.params]),
                      !.pc = IF again THEN "send"
                             ELSE IF r.tag = "Err" THEN "done" ELSE "parse",
                      !.text = IF r.tag = "Err" THEN @ ELSE Some(r.v),
                      !.result = IF r.tag = "Err" /\ ~again THEN Some(r) ELSE @]
    /\ UNCHANGED <<token, request, transport, async>>

\* Lines 42-44: client.send(&url, &params[..]).map_err(ListError::Client)
list_send ==
    /\ sync.pc = "send"
    /\ LET r == map_err_Client(transport) IN
       sync' = [sync EXCEPT
                  !.sent = Append(@, [url |-> sync.url, params |-> sync.params]),
                  !.pc = IF r.tag = "Err" THEN "done" ELSE "parse",
                  !.text = IF r.tag = "Err" THEN @ ELSE Some(r.v),
                  !.result = IF r.tag = "Err" THEN Some(r) ELSE @]
    /\ UNCHANGED <<token, request, transport, async>>

\* and_then: an Err ends the chain as the result, an Ok value goes on to
\* the next step.
parsed_and_then(frame, r) ==
    [frame EXCEPT
       !.parses = @ + 1,
       !.pc = IF r.tag = "Err" THEN "done" ELSE "into",
       !.parsed = IF r.tag = "Err" THEN @ ELSE Some(r.v),
       !.result = IF r.tag = "Err" THEN Some(r) ELSE @]

\* Variant: the parse error is wrapped as a transport error.
list_parse_as_client ==
    /\ sync.pc = "parse"
    /\ sync' = parsed_and_then(sync, map_err_Client(from_str(sync.text.v)))
    /\ UNCHANGED <<token, request, transport, async>>

\* Lines 45-47: .and_then(|result| from_str(&result).map_err(MalformedResponse))
list_parse ==
    /\ sync.pc = "parse"
    /\ sync' = parsed_and_then(sync, map_err_MalformedResponse(from_str(sync.text.v)))
    /\ UNCHANGED <<token, request, transport, async>>

\* Line 48: .and_then(|o| o.into())
list_into ==
    /\ sync.pc = "into"
    /\ sync' = [sync EXCEPT
                  !.intos = @ + 1,
                  !.pc = "done",
                  !.result = Some(ListResponse_into(sync.parsed.v))]
    /\ UNCHANGED <<token, request, transport, async>>

(***************************************************************************)
(* list_async (lines 56-78)                                                *)
(***************************************************************************)
\* Response::json of reqwest: the body through serde_json, a failure
\* wrapped in reqwest's own error type.
reqwest_error(r) ==
    IF r.tag = "Err" THEN Err([kind |-> "json", source |-> r.e]) ELSE r

reqwest_json(body) == reqwest_error(from_str(body))

\* Lines 61-74: the parameters, the url and its query pairs.
list_async_build ==
    /\ async.pc = "params"
    /\ async' = [async EXCEPT
                   !.pc = "send",
                   !.params = list_async_params(token, request),
                   !.url = get_slack_url_for_method("conversations.list")]
    /\ UNCHANGED <<token, request, transport, sync>>

\* Line 75: client.get(url).send(), the request goes out and the future
\* is pending.
list_async_send ==
    /\ async.pc = "send"
    /\ async' = [async EXCEPT
                   !.sent = Append(@, [url |-> async.url, params |-> async.params]),
                   !.pc = "pending"]
    /\ UNCHANGED <<token, request, transport, sync>>

\* Line 75: the send future resolves; .map_err(ListError::Client)
list_async_response ==
    /\ async.pc = "pending"
    /\ LET r == map_err_Client(transport) IN
       async' = [async EXCEPT
                   !.pc = IF r.tag = "Err" THEN "done" ELSE "json",
                   !.text = IF r.tag = "Err" THEN @ ELSE Some(r.v),
                   !.result = IF r.tag = "Err" THEN Some(r) ELSE @]
    /\ UNCHANGED <<token, request, transport, sync>>

\* The future resolves with what the last closure of the chain returned.
resolved(frame, r) ==
    [frame EXCEPT
       !.parses = @ + 1,
       !.pc = "done",
       !.parsed = IF r.tag = "Err" THEN @ ELSE Some(r.v),
       !.result = Some(r)]

\* Lines 75-77: .and_then(|mut result| result.json().map_err(ListError::Client))
list_async_json ==
    /\ async.pc = "json"
    /\ async' = resolved(async, map_err_Client(reqwest_json(async.text.v)))
    /\ UNCHANGED <<token, request, transport, sync>>

\* Both results have been handed to the caller; the frames are dropped.
Return ==
    /\ sync.pc = "done"
    /\ async.pc = "done"
    /\ token' = ""
    /\ request' = ListRequest(None, None, None, None)
    /\ transport' = Err([kind |-> "transport", msg |-> "not connected"])
    /\ sync' = Idle
    /\ async' = Idle

Next ==
    \/ Call
    \/ list_build
    \/ list_send
    \/ list_parse
    \/ list_into
    \/ list_async_build
    \/ list_async_send
    \/ list_async_response
    \/ list_async_json
    \/ Return

Spec == Init /\ [][Next]_vars

(***************************************************************************)
(* Properties.                                                             *)
(***************************************************************************)
Done(frame) == frame.pc = "done"
Built(frame) == frame.pc \notin {"idle", "params"}

\* Ok, or the kind of the error.
Classification(r) == IF r.tag = "Ok" THEN "Ok" ELSE r.e.kind

FieldNames == <<"exclude_archived", "cursor", "limit", "types">>

\* The value of the pair called `name` in a parameter sequence.
ParamValue(params, name) ==
    params[CHOOSE i \in 1..Len(params) : params[i][1] = name][2]

\* str::parse::<u32>: an optional `+`, then decimal digits, no overflow.
DigitValue(c) == CHOOSE d \in 0..9 : DigitChar(d) = c

RECURSIVE parse_digits(_, _)
parse_digits(n, s) ==
    IF s = "" THEN Some(n)
    ELSE IF ~IsDigit(Head(s)) THEN None
    ELSE LET lo == n.lo * 10 + DigitValue(Head(s))
             hi == n.hi * 10 + lo \div Half
         IN  IF hi >= Half THEN None
             ELSE parse_digits(U32(hi, lo % Half), Tail(s))

parse_u32(s) ==
    LET t == IF StartsWith(s, "+") THEN Tail(s) ELSE s
    IN  IF t = "" THEN None ELSE parse_digits(U32(0, 0), t)

\* C1: for the same token and request and every envelope the transport
\* delivers, list and list_async end in the same classification (both Ok, or
\* both Err of the same kind); an envelope with ok = false never resolves
\* list_async to Ok.
C1_SameClassification ==
    (Done(sync) /\ Done(async) /\ sync.parsed.some) =>
        /\ Classification(sync.result.v) = Classification(async.result.v)
        /\ ~sync.parsed.v.ok => async.result.v.tag = "Err"

\* C2: when the transport yields a body that does not parse as the envelope,
\* list_async resolves to MalformedResponse carrying the parse error, as list
\* does.
C2_AsyncMalformedResponse ==
    (Done(async) /\ transport.tag = "Ok" /\ from_str(transport.v).tag = "Err") =>
        async.result.v = Err(MalformedResponse(from_str(transport.v).e))

\* C3: the conversion of an error code is exact and total: each of the 11
\* known codes gives its own kind, every other string s gives Unknown(s), and
\* the conversion gives neither MalformedResponse nor Client.
CodeTable ==
    {<<"not_authed", "NotAuthed">>, <<"invalid_auth", "InvalidAuth">>,
     <<"account_inactive", "AccountInactive">>,
     <<"invalid_arg_name", "InvalidArgName">>,
     <<"invalid_array_arg", "InvalidArrayArg">>,
     <<"invalid_charset", "InvalidCharset">>,
     <<"invalid_form_data", "InvalidFormData">>,
     <<"invalid_post_type", "InvalidPostType">>,
     <<"missing_post_type", "MissingPostType">>,
     <<"team_added_to_org", "TeamAddedToOrg">>,
     <<"request_timeout", "RequestTimeout">>}

C3_CodeConversion ==
    /\ Cardinality({row[1] : row \in CodeTable}) = 11
    /\ Cardinality({row[2] : row \in CodeTable}) = 11
    /\ (Done(sync) /\ sync.intos = 1 /\ ~sync.parsed.v.ok) =>
        LET s == IF sync.parsed.v.error.some THEN sync.parsed.v.error.v ELSE ""
            e == sync.result.v.e
        IN  /\ sync.result.v.tag = "Err"
            /\ e.kind \notin {"MalformedResponse", "Client"}
            /\ \A row \in CodeTable : s = row[1] => e = [kind |-> row[2]]
            /\ (\A row \in CodeTable : s # row[1]) => e = [kind |-> "Unknown", s |-> s]

C3_Witness ==
    /\ Done(sync)
    /\ transport = Ok(ErrorBody("some_future_code"))
    /\ sync.result.v = Err(Unknown("some_future_code"))

\* C4: validation gives exactly one outcome: Ok if and only if `ok` is true
\* (an absent `ok` is false), and then the payload is the envelope itself,
\* channels unchanged; otherwise an error and no payload.
C4_ExactlyOneOutcome ==
    /\ Done(sync) =>
        /\ sync.result.some
        /\ \/ sync.result.v.tag = "Ok" /\ DOMAIN sync.result.v = {"tag", "v"}
           \/ sync.result.v.tag = "Err" /\ DOMAIN sync.result.v = {"tag", "e"}
    /\ (Done(sync) /\ sync.intos = 1) =>
        /\ sync.result.v.tag = "Ok" <=> sync.parsed.v.ok
        /\ sync.result.v.tag = "Ok" => sync.result.v.v = sync.parsed.v
    /\ (Done(sync) /\ transport = Ok("{}")) => sync.result.v.tag = "Err"
    /\ \A n \in 0..MaxChannels :
        (Done(sync) /\ transport = Ok(ChannelsBody(n))) =>
            /\ sync.result.v.tag = "Ok"
            /\ sync.result.v.v.channels.some
            /\ Len(sync.result.v.v.channels.v) = n

C4_Witness ==
    /\ Done(sync)
    /\ transport = Ok("{\"ok\":true,\"channels\":[]}")
    /\ sync.result.v.tag = "Ok"
    /\ sync.result.v.v.channels = Some(<<>>)

\* C5: when the transport's send fails with e, list returns Client(e) and
\* neither parses nor validates; each step runs only after the one before it
\* has succeeded (send, then parse, then validate).
C5_ShortCircuit ==
    /\ (Done(sync) /\ transport.tag = "Err") =>
        /\ sync.result.v = Err(Client(transport.e))
        /\ sync.parses = 0
        /\ sync.intos = 0
    /\ sync.parses <= Len(sync.sent)
    /\ sync.intos <= sync.parses
    /\ sync.parses > 0 => transport.tag = "Ok"
    /\ sync.intos > 0 => sync.parsed.some
    /\ (Done(sync) /\ sync.result.v.tag = "Err"
            /\ sync.result.v.e.kind = "MalformedResponse") => sync.intos = 0

C5_Witness ==
    /\ Done(sync)
    /\ transport = Err([kind |-> "transport", msg |-> "timed out"])
    /\ Len(sync.sent) = 1

\* C6: when the transport yields text that does not parse as the envelope,
\* list returns MalformedResponse carrying the parse error, never a success
\* and never a semantic error kind.
NotJson == {"", "not json", "<html>502</html>", "{\"ok\":tru", "{\"ok\":true}}"}

C6_MalformedResponse ==
    /\ (Done(sync) /\ transport.tag = "Ok" /\ from_str(transport.v).tag = "Err") =>
        sync.result.v = Err(MalformedResponse(from_str(transport.v).e))
    /\ (Done(sync) /\ transport.tag = "Ok" /\ transport.v \in NotJson) =>
        /\ sync.result.v.tag = "Err"
        /\ sync.result.v.e.kind = "MalformedResponse"

C6_Witness ==
    /\ Done(sync)
    /\ transport = Ok("not json")
    /\ sync.result.v.e.kind = "MalformedResponse"

\* C7: the parameter sequence of list and of list_async starts with the pair
\* (token, <token>), holds one pair for each present optional field and none
\* for an absent one, in the order token, exclude_archived, cursor, limit,
\* types; with no optional field present it is the token pair alone.
ExpectedNames(req) ==
    <<"token">> \o SelectSeq(FieldNames, LAMBDA n : req[n].some)

ParamsShape(params) ==
    /\ Len(params) >= 1
    /\ params[1] = <<"token", token>>
    /\ Len(params) = 1 + Cardinality({i \in 1..4 : request[FieldNames[i]].some})
    /\ [i \in 1..Len(params) |-> params[i][1]] = ExpectedNames(request)
    /\ (\A i \in 1..4 : ~request[FieldNames[i]].some) => params = <<<<"token", token>>>>

C7_ParamsShape ==
    /\ Built(sync) => ParamsShape(sync.params)
    /\ Built(async) => ParamsShape(async.params)

C7_Witness ==
    /\ Built(sync)
    /\ Built(async)
    /\ \A i \in 1..4 : request[FieldNames[i]].some
    /\ Len(sync.params) = 5
    /\ Len(async.params) = 5

\* C8: a present field is rendered faithfully: exclude_archived true as "1"
\* and false as "0", a limit as a decimal string that parses back to the
\* same u32, cursor and types unchanged.
ValuesFaithful(params) ==
    /\ request.exclude_archived.some =>
        ParamValue(params, "exclude_archived") =
            (IF request.exclude_archived.v THEN "1" ELSE "0")
    /\ request.limit.some =>
        parse_u32(ParamValue(params, "limit")) = Some(request.limit.v)
    /\ request.cursor.some => ParamValue(params, "cursor") = request.cursor.v
    /\ request.types.some => ParamValue(params, "types") = request.types.v

C8_ValuesFaithful ==
    /\ Built(sync) => ValuesFaithful(sync.params)
    /\ Built(async) => ValuesFaithful(async.params)

C8_Witness ==
    /\ Built(sync)
    /\ request.limit = Some(U32Max)
    /\ request.exclude_archived = Some(FALSE)
    /\ ParamValue(sync.params, "limit") = "4294967295"
    /\ ParamValue(sync.params, "exclude_archived") = "0"

\* C9: a call of list or list_async sends exactly once whatever the outcome;
\* once a call has its result no further step of it runs (no retry, no second
\* send).
OneSend(frame, sentAt) ==
    /\ Len(frame.sent) <= 1
    /\ frame.pc \in sentAt => Len(frame.sent) = 1
    /\ Done(frame) => frame.result.some

Terminal(frame, frame2) == Done(frame) => (frame2 = frame \/ frame2 = Idle)

C10_MissingErrorField ==
    /\ (Done(sync) /\ sync.intos = 1 /\ ~sync.parsed.v.ok /\ ~sync.parsed.v.error.some) =>
        sync.result.v = Err(Unknown(""))
    /\ (Done(sync) /\ transport.tag = "Ok"
            /\ transport.v \in {"{\"ok\":false}", "{}", "{\"ok\":false,\"error\":null}"}) =>
        sync.result.v = Err(Unknown(""))

C10_Witness ==
    /\ Done(sync)
    /\ transport = Ok("{\"ok\":false}")
    /\ sync.result.v = Err(Unknown(""))

=============================================================================
